---- MODULE Spec2Model ----
(***************************************************************************)
(* A model of the Filestore snapshot scheduler: the Cloud Function entry   *)
(* point main (scheduler/main.py) and the retention controller             *)
(* FilestoreInstance (scheduler/filestore_instance.py), run against a      *)
(* model of the remote Filestore service.                                  *)
(*                                                                         *)
(* Strings are sequences of one-character strings, so that the substring  *)
(* test, the slicing and the split of the source are computed and not     *)
(* assumed.  Time is epoch seconds; the local time zone is UTC.           *)
(***************************************************************************)
EXTENDS Integers, Sequences, FiniteSets, TLC

(***************************************************************************)
(* Program constants.                                                      *)
(***************************************************************************)
RETENTION_NAME_LENGTH == 50
MAX_INSTANCES == 8
MAX_NUMBER_OF_SNAPSHOTS == 240
MAX_RETRIES == 3
RETRY_BACKOFF == 2
MONITOR_ATTEMPTS == 8
SNAP_PREFIX == <<"s", "c", "h", "e", "d", "-">>
SUPPORTED_TIERS == {"ENTERPRISE", "HIGH_SCALE_SSD"}

(***************************************************************************)
(* Python values.  None is Python's None; an exception is a record.        *)
(***************************************************************************)
None == [t |-> "none"]
Ok(v) == [t |-> "ok", v |-> v]
Exc(name) == [t |-> "exc", name |-> name]
IsExc(v) == v.t = "exc"

\* JSON values of the request body.
JStr(s) == [t |-> "str", v |-> s]
JNum(n) == [t |-> "num", v |-> n]
JArr(a) == [t |-> "arr", v |-> a]
JNull == [t |-> "null"]
\* dict.get of a key the object does not hold
Absent == None
JEntry(path, snaps) == [t |-> "obj", instance_path |-> path, snapshots |-> snaps]
JRequest(policy, insts) == [t |-> "obj", retention_policy |-> policy, instances |-> insts]

\* Python truthiness ("not x" is ~Truthy(x)).
Truthy(v) ==
  CASE v.t = "none" -> FALSE
    [] v.t = "null" -> FALSE
    [] v.t = "str" -> Len(v.v) > 0
    [] v.t = "num" -> v.v # 0
    [] v.t = "arr" -> Len(v.v) > 0
    [] OTHER -> TRUE

(***************************************************************************)
(* Strings.                                                                *)
(***************************************************************************)
Digits == <<"0", "1", "2", "3", "4", "5", "6", "7", "8", "9">>
IsDigit(c) == \E i \in 1..10 : Digits[i] = c
DigitVal(c) == (CHOOSE i \in 1..10 : Digits[i] = c) - 1

\* F(v), with v computed once
With(v, F(_)) == CHOOSE r \in {F(x) : x \in {v}} : TRUE

\* s[i:] of Python, i counted from 0
SliceFrom(s, i) == IF i >= Len(s) THEN <<>> ELSE SubSeq(s, i + 1, Len(s))

\* "sub in s" of Python
Contains(sub, s) ==
  \E i \in 0..(Len(s) - Len(sub)) : SubSeq(s, i + 1, i + Len(sub)) = sub

\* s.lstrip("/").strip("/")
RECURSIVE LStrip(_)
LStrip(s) == IF s # <<>> /\ Head(s) = "/" THEN LStrip(Tail(s)) ELSE s
RECURSIVE RStrip(_)
RStrip(s) ==
  IF s # <<>> /\ s[Len(s)] = "/" THEN RStrip(SubSeq(s, 1, Len(s) - 1)) ELSE s
StripSlashes(s) == RStrip(LStrip(LStrip(s)))

\* resource_url.split("/")[-1]
get_resource_name(url) ==
  LET slashes == {i \in 1..Len(url) : url[i] = "/"}
      last == IF slashes = {} THEN 0 ELSE CHOOSE i \in slashes : \A j \in slashes : j <= i
  IN SliceFrom(url, last)

\* int(s) of a string: decimal digits with an optional sign, else ValueError
RECURSIVE DecimalValue(_)
DecimalValue(s) ==
  IF s = <<>> THEN 0 ELSE 10 * DecimalValue(SubSeq(s, 1, Len(s) - 1)) + DigitVal(s[Len(s)])
IsDecimal(s) == s # <<>> /\ \A i \in 1..Len(s) : IsDigit(s[i])

\* int(x) of Python on a JSON value: Ok(the integer), or the exception raised
PyInt(v) ==
  CASE v.t = "num" -> Ok(v.v)
    [] v.t = "str" ->
         IF IsDecimal(v.v) THEN Ok(DecimalValue(v.v))
         ELSE IF Len(v.v) > 1 /\ v.v[1] = "-" /\ IsDecimal(Tail(v.v))
              THEN Ok(0 - DecimalValue(Tail(v.v)))
              ELSE Exc("ValueError")
    [] OTHER -> Exc("TypeError")

(***************************************************************************)
(* Time: strftime(TIME_PATTERN) and mktime(strptime(s, TIME_PATTERN)).     *)
(***************************************************************************)
DaysFromCivil(y, m, d) ==
  LET yy == IF m <= 2 THEN y - 1 ELSE y
      era == yy \div 400
      yoe == yy - era * 400
      mp == IF m > 2 THEN m - 3 ELSE m + 9
      doy == (153 * mp + 2) \div 5 + d - 1
      doe == yoe * 365 + yoe \div 4 - yoe \div 100 + doy
  IN era * 146097 + doe - 719468

CivilFromDays(z) ==
  LET zz == z + 719468
      era == zz \div 146097
      doe == zz - era * 146097
      yoe == (doe - doe \div 1460 + doe \div 36524 - doe \div 146096) \div 365
      doy == doe - (365 * yoe + yoe \div 4 - yoe \div 100)
      mp == (5 * doy + 2) \div 153
      d == doy - (153 * mp + 2) \div 5 + 1
      m == IF mp < 10 THEN mp + 3 ELSE mp - 9
      y == yoe + era * 400 + (IF m <= 2 THEN 1 ELSE 0)
  IN [y |-> y, m |-> m, d |-> d]

Pad2(n) == <<Digits[((n \div 10) % 10) + 1], Digits[(n % 10) + 1]>>
Pad4(n) == Pad2(n \div 100) \o Pad2(n % 100)

\* time.strftime("%Y%m%d-%H%M%S") at epoch second t
Strftime(t) ==
  LET c == CivilFromDays(t \div 86400)
      s == t % 86400
  IN Pad4(c.y) \o Pad2(c.m) \o Pad2(c.d) \o <<"-">>
       \o Pad2(s \div 3600) \o Pad2((s % 3600) \div 60) \o Pad2(s % 60)

Num2(s, i) == 10 * DigitVal(s[i]) + DigitVal(s[i + 1])
DaysInMonth(y, m) ==
  IF m = 2
  THEN (IF (y % 4) = 0 /\ ((y % 100) # 0 \/ (y % 400) = 0) THEN 29 ELSE 28)
  ELSE IF m \in {4, 6, 9, 11} THEN 30 ELSE 31

\* int(time.mktime(time.strptime(s, "%Y%m%d-%H%M%S"))): Ok(the epoch second),
\* or ValueError when s is not of the pattern (zero-padded fields, as
\* strftime writes them).
Strptime(s) ==
  IF /\ Len(s) = 15
     /\ s[9] = "-"
     /\ \A i \in (1..15) \ {9} : IsDigit(s[i])
  THEN LET y == 100 * Num2(s, 1) + Num2(s, 3)
           m == Num2(s, 5)
           d == Num2(s, 7)
           hh == Num2(s, 10)
           mm == Num2(s, 12)
           ss == Num2(s, 14)
       IN IF /\ m \in 1..12
             /\ d \in 1..DaysInMonth(y, m)
             /\ hh \in 0..23
             /\ mm \in 0..59
             /\ ss \in 0..61
          THEN Ok(DaysFromCivil(y, m, d) * 86400 + hh * 3600 + mm * 60 + ss)
          ELSE Exc("ValueError")
  ELSE Exc("ValueError")

(***************************************************************************)
(* main.py: the request validator.                                         *)
(***************************************************************************)
\* request.get_json(force=True): the parsed body, or BadRequest
get_json(body) == IF body.kind = "malformed" THEN Exc("BadRequest") ELSE Ok(body.value)

\* dict.get(key) on the request object and on an instance entry
GetPolicy(request_json) == request_json.retention_policy
GetInstances(request_json) == request_json.instances

validate_json_schema(request_json) ==
  /\ request_json.t = "obj"
  /\ GetPolicy(request_json).t \in {"none", "str"}
  /\ GetInstances(request_json).t \in {"none", "arr"}

\* validate_json without the check of the number of instances
mutant_validate_json_any_length(request_json) ==
  IF ~validate_json_schema(request_json) THEN FALSE
  ELSE IF ~Truthy(GetPolicy(request_json)) THEN FALSE
  ELSE IF Len(GetPolicy(request_json).v) > RETENTION_NAME_LENGTH THEN FALSE
  ELSE IF ~Truthy(GetInstances(request_json)) THEN FALSE
  ELSE TRUE

validate_json(request_json) ==
  IF ~validate_json_schema(request_json) THEN FALSE
  ELSE IF ~Truthy(GetPolicy(request_json)) THEN FALSE
  ELSE IF Len(GetPolicy(request_json).v) > RETENTION_NAME_LENGTH THEN FALSE
  ELSE IF ~Truthy(GetInstances(request_json)) THEN FALSE
  ELSE IF Len(GetInstances(request_json).v) > MAX_INSTANCES THEN FALSE
  ELSE TRUE

\* validate_instance_input that lets a count of zero through
mutant_validate_instance_input_accepts_zero(instance_data) ==
  IF instance_data.t # "obj" THEN Exc("AttributeError")
  ELSE IF ~Truthy(instance_data.instance_path) THEN Ok(FALSE)
  ELSE IF ~Truthy(instance_data.snapshots) THEN Ok(FALSE)
  ELSE LET n == PyInt(instance_data.snapshots)
       IN IF IsExc(n) THEN n
          ELSE IF n.v < 0 THEN Ok(FALSE)
          ELSE IF n.v > MAX_NUMBER_OF_SNAPSHOTS THEN Ok(FALSE)
          ELSE Ok(TRUE)

\* Ok(TRUE), Ok(FALSE), or the exception the body raises
validate_instance_input(instance_data) ==
  IF instance_data.t # "obj" THEN Exc("AttributeError")
  ELSE IF ~Truthy(instance_data.instance_path) THEN Ok(FALSE)
  ELSE IF ~Truthy(instance_data.snapshots) THEN Ok(FALSE)
  ELSE LET n == PyInt(instance_data.snapshots)
       IN IF IsExc(n) THEN n
          ELSE IF n.v <= 0 THEN Ok(FALSE)
          ELSE IF n.v > MAX_NUMBER_OF_SNAPSHOTS THEN Ok(FALSE)
          ELSE Ok(TRUE)

(***************************************************************************)
(* filestore_instance.py: the pure part of the controller.                 *)
(***************************************************************************)
\* retry_wrapper after a caught exception: the seconds slept
RetrySleep(attempts) == RETRY_BACKOFF ^ (attempts + 1)

\* f"{SNAP_PREFIX}{retention_policy}-"
PolicyMarker(retention_policy) == SNAP_PREFIX \o retention_policy \o <<"-">>

\* f"{SNAP_PREFIX}{self.retention_policy}-{time.strftime(TIME_PATTERN)}"
snap_name(retention_policy, now) == PolicyMarker(retention_policy) \o Strftime(now)

SnapshotsSegment == <<"/", "s", "n", "a", "p", "s", "h", "o", "t", "s", "/">>
\* the resource name the service gives snapshot id of instance url
SnapshotUrl(url, id) == url \o SnapshotsSegment \o id

\* lines 131-134 of __init__: Ok(the fields read from the user input), or
\* the exception raised
InitFields(instance_data, retention_policy) ==
  IF instance_data.instance_path.t # "str" THEN Exc("AttributeError")
  ELSE LET n == PyInt(instance_data.snapshots)
       IN IF IsExc(n) THEN n
          ELSE Ok([retention_policy |-> retention_policy,
                   url |-> StripSlashes(instance_data.instance_path.v),
                   max_snapshots |-> n.v])

get_scheduler_snapshots_list(snapshots, retention_policy) ==
  LET matching == SelectSeq(snapshots,
                    LAMBDA snapshot :
                      /\ Contains(PolicyMarker(retention_policy), snapshot.name)
                      /\ snapshot.state = "READY")
  IN [i \in 1..Len(matching) |-> matching[i].name]

\* the timestamp part of a scheduler snapshot's name, parsed
SnapshotEpoch(snapshot, retention_policy) ==
  With(SliceFrom(get_resource_name(snapshot),
                 Len(SNAP_PREFIX \o retention_policy) + 1),
       LAMBDA s : Strptime(s))

\* the oldest snapshot's name as JStr, None, or ValueError
get_oldest_scheduler_snapshot(scheduler_snapshots, retention_policy) ==
  IF scheduler_snapshots = <<>> THEN None
  ELSE With(<<SnapshotEpoch(scheduler_snapshots[1], retention_policy)>>
              \o [i \in 1..(Len(scheduler_snapshots) - 1) |->
                    SnapshotEpoch(scheduler_snapshots[i + 1], retention_policy)],
            LAMBDA epoch :
              IF \E i \in DOMAIN epoch : IsExc(epoch[i]) THEN Exc("ValueError")
              ELSE LET least == CHOOSE i \in DOMAIN epoch :
                                  /\ \A j \in DOMAIN epoch : epoch[i].v <= epoch[j].v
                                  /\ \A j \in DOMAIN epoch :
                                       epoch[j].v = epoch[i].v => i <= j
                   IN JStr(scheduler_snapshots[least]))

\* deletion_needed with the equality branch lost
mutant_deletion_needed_strict(filer) ==
  Len(filer.scheduler_snapshots) > filer.max_snapshots

\* deletion_needed that never answers no
mutant_deletion_needed_always(filer) == TRUE

\* deletion_needed with the branch of the drifted count lost
mutant_deletion_needed_only_equal(filer) ==
  Len(filer.scheduler_snapshots) = filer.max_snapshots

deletion_needed(filer) ==
  IF Len(filer.scheduler_snapshots) = filer.max_snapshots THEN TRUE
  ELSE IF Len(filer.scheduler_snapshots) > filer.max_snapshots THEN TRUE
  ELSE FALSE

\* validate_instance_requirements without the check of the snapshot limit
mutant_validate_instance_requirements_no_limit(filer) ==
  IF filer.filestore_instance_json.tier \notin SUPPORTED_TIERS THEN FALSE
  ELSE IF filer.filestore_instance_json.state # "READY" THEN FALSE
  ELSE TRUE

\* validate_instance_requirements without the check of the tier
mutant_validate_instance_requirements_any_tier(filer) ==
  IF Len(filer.snapshots.v) = MAX_NUMBER_OF_SNAPSHOTS THEN FALSE
  ELSE IF filer.filestore_instance_json.state # "READY" THEN FALSE
  ELSE TRUE

validate_instance_requirements(filer) ==
  IF filer.filestore_instance_json.tier \notin SUPPORTED_TIERS THEN FALSE
  ELSE IF Len(filer.snapshots.v) = MAX_NUMBER_OF_SNAPSHOTS THEN FALSE
  ELSE IF filer.filestore_instance_json.state # "READY" THEN FALSE
  ELSE TRUE

(***************************************************************************)
(* The control flow of main and of the controller, between two remote      *)
(* calls.  A program state p is the record of the program's variables; a   *)
(* step returns the next one, with the seconds it slept in p.slept.        *)
(***************************************************************************)
CallSites == {"get_instance", "list_snapshots", "create", "get_operation", "delete"}

NoFiler == [retention_policy |-> <<>>, url |-> <<>>, max_snapshots |-> 0,
            filestore_instance_json |-> None, snapshots |-> None,
            scheduler_snapshots |-> <<>>, oldest_sched_snapshot |-> None]

\* main returns value v
Return(p, v) == [p EXCEPT !.pc = "returned", !.retval = Ok(v)]
\* an exception no handler catches leaves main
Raise(p, e) == [p EXCEPT !.pc = "raised", !.retval = e]
\* main, lines 161-165 and 168: on to the next entry of the loop
NextEntry(p) == [p EXCEPT !.pc = "loop", !.idx = @ + 1, !.attempts = 0]
\* a decorated method is called: retry_wrapper starts with attempts = 0
Call(p, site) == [p EXCEPT !.pc = site, !.attempts = 0]

\* main, lines 145-153
main_enter(p, body) ==
  LET j == get_json(body)
  IN IF IsExc(j) THEN Return(p, "done with error")
     ELSE IF ~validate_json(j.v) THEN Return(p, "done with error")
     ELSE [p EXCEPT !.pc = "loop", !.idx = 1]

\* main, lines 154-160, and __init__, lines 131-139
main_loop(p, body) ==
  LET request_json == body.value
      instances == GetInstances(request_json).v
  IN IF p.idx > Len(instances) THEN Return(p, "done")
     ELSE LET instance_data == instances[p.idx]
              valid == validate_instance_input(instance_data)
          IN IF IsExc(valid) THEN Raise(p, valid)
             ELSE IF ~valid.v THEN NextEntry(p)
             ELSE LET f == InitFields(instance_data, GetPolicy(request_json).v)
                  IN IF IsExc(f) THEN Raise(p, f)
                     ELSE Call([p EXCEPT
                                  !.filer = [NoFiler EXCEPT
                                     !.retention_policy = f.v.retention_policy,
                                     !.url = f.v.url,
                                     !.max_snapshots = f.v.max_snapshots],
                                  !.operation_url = None,
                                  !.creation_completed = None,
                                  !.attempt = 0],
                               "get_instance")

\* increment_retention that deletes whatever the monitoring answered
mutant_after_monitor_ignores_result(p, completed) ==
  LET q == [p EXCEPT !.creation_completed = Ok(completed)]
  IN IF deletion_needed(q.filer) THEN Call(q, "delete") ELSE NextEntry(q)

\* increment_retention that never deletes
mutant_after_monitor_never_deletes(p, completed) ==
  NextEntry([p EXCEPT !.creation_completed = Ok(completed)])

\* increment_retention, lines 347-357, once _monitor_operation returned
after_monitor(p, completed) ==
  LET q == [p EXCEPT !.creation_completed = Ok(completed)]
  IN IF completed
     THEN (IF deletion_needed(q.filer) THEN Call(q, "delete") ELSE NextEntry(q))
     ELSE NextEntry(q)

\* _monitor_operation that waits after its last poll as after the others
mutant_after_get_operation_waits_after_last(p, operation_details) ==
  IF Truthy(operation_details)
  THEN IF operation_details.done /\ operation_details.response
       THEN after_monitor(p, TRUE)
       ELSE IF operation_details.done /\ operation_details.error
       THEN after_monitor(p, FALSE)
       ELSE LET q == [p EXCEPT !.slept = @ + 2 ^ p.attempt, !.attempt = @ + 1]
            IN IF q.attempt <= MONITOR_ATTEMPTS
               THEN Call(q, "get_operation")
               ELSE after_monitor(q, FALSE)
  ELSE after_monitor(p, FALSE)

\* _monitor_operation, lines 228-248, once _get_operation returned
after_get_operation(p, operation_details) ==
  IF Truthy(operation_details)
  THEN IF operation_details.done /\ operation_details.response
       THEN after_monitor(p, TRUE)
       ELSE IF operation_details.done /\ operation_details.error
       THEN after_monitor(p, FALSE)
       ELSE LET q == [p EXCEPT
                        !.slept = IF p.attempt < MONITOR_ATTEMPTS
                                  THEN @ + 2 ^ p.attempt ELSE @,
                        !.attempt = @ + 1]
            IN IF q.attempt <= MONITOR_ATTEMPTS
               THEN Call(q, "get_operation")
               ELSE after_monitor(q, FALSE)
  ELSE after_monitor(p, FALSE)

\* increment_retention, lines 344-346, once _create_snapshot returned
after_create_snapshot(p, operation_url) ==
  LET q == [p EXCEPT !.operation_url = operation_url]
  IN IF Truthy(operation_url)
     THEN Call([q EXCEPT !.attempt = 1], "get_operation")
     ELSE NextEntry(q)

\* a bulk catch-up: after a deletion the next oldest snapshot is deleted
\* too, while the count still exceeds the retention count
mutant_after_delete_snapshot_catches_up(p, acknowledged) ==
  LET rest == SelectSeq(p.filer.scheduler_snapshots,
                        LAMBDA name : JStr(name) # p.filer.oldest_sched_snapshot)
      q == [p EXCEPT !.filer.scheduler_snapshots = rest,
                     !.filer.oldest_sched_snapshot =
                        get_oldest_scheduler_snapshot(rest, p.filer.retention_policy)]
  IN IF Len(rest) >= p.filer.max_snapshots /\ rest # <<>>
     THEN Call(q, "delete") ELSE NextEntry(q)

\* increment_retention, line 354, once _delete_snapshot returned
after_delete_snapshot(p, acknowledged) == NextEntry(p)

\* the controller that deletes before it creates
mutant_after_list_snapshots_deletes_first(p, snapshots) ==
  LET sched == get_scheduler_snapshots_list(snapshots.v, p.filer.retention_policy)
      r == [p EXCEPT !.filer.snapshots = snapshots,
                     !.filer.scheduler_snapshots = sched,
                     !.filer.oldest_sched_snapshot =
                        get_oldest_scheduler_snapshot(sched, p.filer.retention_policy)]
  IN IF snapshots.t # "list" \/ IsExc(r.filer.oldest_sched_snapshot)
     THEN Raise(p, Exc("TypeError"))
     ELSE IF ~validate_instance_requirements(r.filer) THEN NextEntry(r)
     ELSE IF deletion_needed(r.filer) THEN Call(r, "delete")
     ELSE Call(r, "create")

\* __init__, lines 143-145, and main, lines 166-167, once _list_snapshots
\* returned
after_list_snapshots(p, snapshots) ==
  IF snapshots.t # "list"
  THEN Raise([p EXCEPT !.filer.snapshots = snapshots], Exc("TypeError"))
  ELSE With(get_scheduler_snapshots_list(snapshots.v, p.filer.retention_policy),
         LAMBDA sched :
           With(get_oldest_scheduler_snapshot(sched, p.filer.retention_policy),
             LAMBDA oldest :
               LET q == [p EXCEPT !.filer.snapshots = snapshots,
                                  !.filer.scheduler_snapshots = sched]
                   r == [q EXCEPT !.filer.oldest_sched_snapshot = oldest]
               IN IF IsExc(oldest) THEN Raise(q, oldest)
                  ELSE IF validate_instance_requirements(r.filer)
                       THEN Call(r, "create")
                       ELSE NextEntry(r)))

\* __init__, lines 140-142, and main, lines 161-165, once _get_instance
\* returned
after_get_instance(p, response) ==
  LET q == [p EXCEPT !.filer.filestore_instance_json = response]
  IN IF ~Truthy(response) THEN NextEntry(q)
     ELSE Call(q, "list_snapshots")

\* the call site resumes with the value the decorated method returned
Resume(p, site, value) ==
  CASE site = "get_instance" -> after_get_instance(p, value)
    [] site = "list_snapshots" -> after_list_snapshots(p, value)
    [] site = "create" -> after_create_snapshot(p, value)
    [] site = "get_operation" -> after_get_operation(p, value)
    [] site = "delete" -> after_delete_snapshot(p, value)

\* retry_wrapper that allows one attempt more
mutant_retry_wrapper_one_more(p) ==
  LET q == [p EXCEPT !.slept = @ + RetrySleep(p.attempts), !.attempts = @ + 1]
  IN IF q.attempts <= MAX_RETRIES THEN q
     ELSE Resume(q, p.pc, None)

\* retry_wrapper, lines 72-82, after an attempt raised a service error or
\* a socket timeout
retry_wrapper(p) ==
  LET q == [p EXCEPT !.slept = @ + RetrySleep(p.attempts), !.attempts = @ + 1]
  IN IF q.attempts < MAX_RETRIES THEN q
     ELSE Resume(q, p.pc, None)

(***************************************************************************)
(* The state.                                                              *)
(***************************************************************************)
VARIABLES
  request,            \* the body of the trigger's HTTP request
  pc,                 \* where main is: idle, loop, a call site, returned, raised
  idx,                \* main's position in request_json["instances"], from 1
  filer,              \* the FilestoreInstance under construction or in use
  operation_url,      \* increment_retention's local
  creation_completed, \* increment_retention's local: None, Ok(TRUE), Ok(FALSE)
  attempts,           \* retry_wrapper's local
  attempt,            \* _monitor_operation's local
  retval,             \* None, Ok(the string main returned), or the exception
  clock,              \* the time, in epoch seconds
  remote,             \* the service: instance url -> tier, state, snapshots
  ops,                \* the service's create operations, each with the
                      \* entry whose controller asked for it
  invocation,         \* how many times main was called
  faults,             \* how many more attempts the service may let fail
  calls,              \* history: the create and delete requests issued
  nreq,               \* history: entry -> requests issued for it, by call site
  exhausted,          \* history: the entries and call sites whose retries ran out
  startCount,         \* history: entry -> scheduler snapshots when it began
  count0              \* history: I1's scheduler snapshots before the first run

progVars == <<pc, idx, filer, operation_url, creation_completed, attempts, attempt, retval>>
envVars == <<remote, ops>>
histVars == <<calls, nreq, exhausted, startCount, count0>>
vars == <<request, progVars, clock, envVars, invocation, faults, histVars>>

\* the program's variables as a program state
Cur == [pc |-> pc, idx |-> idx, filer |-> filer, operation_url |-> operation_url,
        creation_completed |-> creation_completed, attempts |-> attempts,
        attempt |-> attempt, retval |-> retval, slept |-> 0]

\* the program moves to state p, having slept p.slept seconds
SetProg(p) ==
  /\ pc' = p.pc
  /\ idx' = p.idx
  /\ filer' = p.filer
  /\ operation_url' = p.operation_url
  /\ creation_completed' = p.creation_completed
  /\ attempts' = p.attempts
  /\ attempt' = p.attempt
  /\ retval' = p.retval
  /\ clock' = clock + p.slept

ZeroReq == [site \in CallSites |-> 0]
\* one more request of the current call site is sent for the current entry
CountRequest == nreq' = [nreq EXCEPT ![idx][pc] = @ + 1]
\* the requests sent in this run of the model, all entries together
RECURSIVE SumOver(_, _)
SumOver(f, S) ==
  IF S = {} THEN 0
  ELSE LET x == CHOOSE y \in S : TRUE IN f[x] + SumOver(f, S \ {x})
NRequests ==
  SumOver([e \in DOMAIN nreq |-> SumOver(nreq[e], CallSites)], DOMAIN nreq)

\* a create or delete request is sent: the history keeps it with the locals
\* of increment_retention at that moment
LogCall(op, name) ==
  calls' = Append(calls, [op |-> op, idx |-> idx, name |-> name,
                          handle |-> operation_url,
                          completed |-> creation_completed])
\* the retries of the current call run out with this attempt
NoteExhausted ==
  exhausted' = IF attempts + 1 >= MAX_RETRIES
               THEN exhausted \cup {[idx |-> idx, site |-> pc]} ELSE exhausted

(***************************************************************************)
(* The remote service.                                                     *)
(***************************************************************************)
SnapIds(url) == {remote[url].snaps[i].id : i \in 1..Len(remote[url].snaps)}
SetSnapState(snaps, id, state) ==
  [i \in 1..Len(snaps) |->
     IF snaps[i].id = id THEN [snaps[i] EXCEPT !.state = state] ELSE snaps[i]]
DropSnap(snaps, id) == SelectSeq(snaps, LAMBDA sn : sn.id # id)

\* GetInstance's response
InstanceDetails(url) ==
  [t |-> "dict", tier |-> remote[url].tier, state |-> remote[url].state]
\* ListSnapshots' response, as response.get("snapshots", [])
SnapshotList(url) ==
  [t |-> "list",
   v |-> [i \in 1..Len(remote[url].snaps) |->
            [name |-> SnapshotUrl(url, remote[url].snaps[i].id),
             state |-> remote[url].snaps[i].state]]]
\* GetOperation's response
OperationDetails(handle) ==
  LET op == CHOOSE o \in ops : o.n = handle.n
  IN [t |-> "dict", done |-> op.status # "running",
      response |-> op.status = "ok", error |-> op.status = "error"]

\* the service accepts CreateSnapshot(parent=url, snapshotId=id)
AcceptCreate(url, id) ==
  /\ remote' = [remote EXCEPT ![url].snaps = Append(@, [id |-> id, state |-> "CREATING"])]
  /\ ops' = ops \cup {[n |-> Cardinality(ops) + 1, url |-> url, id |-> id,
                       status |-> "running", idx |-> idx]}
NewHandle == [t |-> "op", n |-> Cardinality(ops) + 1]

\* the service accepts DeleteSnapshot(name): the snapshot of that name, if any
DeleteTarget(url, name) ==
  {id \in SnapIds(url) : JStr(SnapshotUrl(url, id)) = name}
AcceptDelete(url, id) ==
  /\ remote' = [remote EXCEPT ![url].snaps = SetSnapState(@, id, "DELETING")]
  /\ UNCHANGED ops

(***************************************************************************)
(* What the claims call a scheduler snapshot: a READY snapshot whose id is *)
(* sched-<policy>-<timestamp>.                                             *)
(***************************************************************************)
IsSchedulerId(id, policy) ==
  /\ Len(id) > Len(PolicyMarker(policy))
  /\ SubSeq(id, 1, Len(PolicyMarker(policy))) = PolicyMarker(policy)
  /\ ~IsExc(Strptime(SliceFrom(id, Len(PolicyMarker(policy)))))
ReadySchedulerIds(url, policy) ==
  IF url \notin DOMAIN remote THEN {}
  ELSE {remote[url].snaps[i].id : i \in
          {j \in 1..Len(remote[url].snaps) :
             /\ remote[url].snaps[j].state = "READY"
             /\ IsSchedulerId(remote[url].snaps[j].id, policy)}}

(***************************************************************************)
(* The actions: the trigger, the program's steps, each ending at the next  *)
(* remote call, and the service's own steps.                               *)
(***************************************************************************)
\* the trigger calls main(request)
Start ==
  /\ pc = "idle"
  /\ invocation = 0
  /\ invocation' = 1
  /\ \E p \in {main_enter(Cur, request)} : SetProg(p)
  /\ UNCHANGED <<request, envVars, faults, histVars>>

\* the head of main's loop over the instances
LoopHead ==
  /\ pc = "loop"
  /\ \E p \in {main_loop(Cur, request)} :
        /\ SetProg(p)
        /\ IF p.pc = "get_instance"
           THEN /\ nreq' = (idx :> ZeroReq) @@ nreq
                /\ startCount' = (idx :> Cardinality(
                       ReadySchedulerIds(p.filer.url, p.filer.retention_policy)))
                                    @@ startCount
           ELSE UNCHANGED <<nreq, startCount>>
  /\ UNCHANGED <<request, envVars, invocation, faults, calls, exhausted, count0>>

GetInstanceReturns ==
  /\ pc = "get_instance"
  /\ filer.url \in DOMAIN remote
  /\ \E p \in {after_get_instance(Cur, InstanceDetails(filer.url))} : SetProg(p)
  /\ CountRequest
  /\ UNCHANGED <<request, envVars, invocation, faults, calls, exhausted, startCount, count0>>

ListSnapshotsReturns ==
  /\ pc = "list_snapshots"
  /\ filer.url \in DOMAIN remote
  /\ \E p \in {after_list_snapshots(Cur, SnapshotList(filer.url))} : SetProg(p)
  /\ CountRequest
  /\ UNCHANGED <<request, envVars, invocation, faults, calls, exhausted, startCount, count0>>

\* _create_snapshot by a controller that refreshes its view with the
\* snapshot it asked for
mutant_CreateSnapshotReturns_refreshes_view ==
  /\ pc = "create"
  /\ filer.url \in DOMAIN remote
  /\ LET id == snap_name(filer.retention_policy, clock)
         sched == Append(filer.scheduler_snapshots, SnapshotUrl(filer.url, id))
         oldest == get_oldest_scheduler_snapshot(sched, filer.retention_policy)
     IN /\ id \notin SnapIds(filer.url)
        /\ AcceptCreate(filer.url, id)
        /\ LogCall("create", JStr(id))
        /\ \E p \in {after_create_snapshot(
                        [Cur EXCEPT !.filer.scheduler_snapshots = sched,
                                    !.filer.oldest_sched_snapshot =
                                       IF IsExc(oldest) THEN @ ELSE oldest],
                        NewHandle)} : SetProg(p)
  /\ CountRequest
  /\ UNCHANGED <<request, invocation, faults, exhausted, startCount, count0>>

\* _create_snapshot, lines 202-211: the request is accepted and acknowledged
CreateSnapshotReturns ==
  /\ pc = "create"
  /\ filer.url \in DOMAIN remote
  /\ LET id == snap_name(filer.retention_policy, clock)
     IN /\ id \notin SnapIds(filer.url)
        /\ AcceptCreate(filer.url, id)
        /\ LogCall("create", JStr(id))
        /\ \E p \in {after_create_snapshot(Cur, NewHandle)} : SetProg(p)
  /\ CountRequest
  /\ UNCHANGED <<request, invocation, faults, exhausted, startCount, count0>>

\* _monitor_operation's poll is answered
GetOperationReturns ==
  /\ pc = "get_operation"
  /\ \E p \in {after_get_operation(Cur, OperationDetails(operation_url))} : SetProg(p)
  /\ CountRequest
  /\ UNCHANGED <<request, envVars, invocation, faults, calls, exhausted, startCount, count0>>

\* _delete_snapshot, lines 257-263: the request is accepted and acknowledged.
\* With no name to delete the client library raises TypeError and sends
\* nothing.
DeleteSnapshotReturns ==
  /\ pc = "delete"
  /\ IF filer.oldest_sched_snapshot = None
     THEN /\ SetProg(Raise(Cur, Exc("TypeError")))
          /\ UNCHANGED <<envVars, calls, nreq>>
     ELSE /\ filer.url \in DOMAIN remote
          /\ \E id \in DeleteTarget(filer.url, filer.oldest_sched_snapshot) :
               AcceptDelete(filer.url, id)
          /\ LogCall("delete", filer.oldest_sched_snapshot)
          /\ \E p \in {after_delete_snapshot(Cur, TRUE)} : SetProg(p)
          /\ CountRequest
  /\ UNCHANGED <<request, invocation, faults, exhausted, startCount, count0>>

\* the service lets one more attempt fail
Fault == faults > 0 /\ faults' = faults - 1

\* the name an attempt of the current call site sends, for the history
RequestName ==
  IF pc = "create" THEN JStr(snap_name(filer.retention_policy, clock))
  ELSE filer.oldest_sched_snapshot
LogAttempt ==
  IF pc \in {"create", "delete"} THEN LogCall(pc, RequestName) ELSE UNCHANGED calls

\* the service can only refuse the request of the current call site: the
\* instance or the snapshot is not there (404), or a snapshot of that id
\* is (409)
Refused ==
  CASE pc \in {"get_instance", "list_snapshots"} -> filer.url \notin DOMAIN remote
    [] pc = "create" ->
         \/ filer.url \notin DOMAIN remote
         \/ snap_name(filer.retention_policy, clock) \in SnapIds(filer.url)
    [] pc = "delete" ->
         \/ filer.url \notin DOMAIN remote
         \/ DeleteTarget(filer.url, filer.oldest_sched_snapshot) = {}
    [] OTHER -> FALSE

\* an attempt of any remote call raises a service error or a socket
\* timeout, the service having done nothing
CallRaises ==
  /\ pc \in CallSites
  /\ ~(pc = "delete" /\ filer.oldest_sched_snapshot = None)
  /\ \E p \in {retry_wrapper(Cur)} : SetProg(p)
  /\ CountRequest
  /\ LogAttempt
  /\ NoteExhausted
  /\ IF Refused THEN UNCHANGED faults ELSE Fault
  /\ UNCHANGED <<request, envVars, invocation, startCount, count0>>

\* the service accepts the create request, and the attempt times out
\* before the answer arrives
CreateAcceptedResponseLost ==
  /\ pc = "create"
  /\ filer.url \in DOMAIN remote
  /\ LET id == snap_name(filer.retention_policy, clock)
     IN /\ id \notin SnapIds(filer.url)
        /\ AcceptCreate(filer.url, id)
  /\ \E p \in {retry_wrapper(Cur)} : SetProg(p)
  /\ CountRequest
  /\ LogAttempt
  /\ NoteExhausted
  /\ Fault
  /\ UNCHANGED <<request, invocation, startCount, count0>>

\* the service answers the create request with an empty operation name
CreateReturnsNoName ==
  /\ pc = "create"
  /\ \E p \in {after_create_snapshot(Cur, None)} : SetProg(p)
  /\ CountRequest
  /\ LogAttempt
  /\ Fault
  /\ UNCHANGED <<request, envVars, invocation, exhausted, startCount, count0>>

\* the service accepts the delete request, and the attempt times out
DeleteAcceptedResponseLost ==
  /\ pc = "delete"
  /\ filer.oldest_sched_snapshot # None
  /\ filer.url \in DOMAIN remote
  /\ \E id \in DeleteTarget(filer.url, filer.oldest_sched_snapshot) :
       AcceptDelete(filer.url, id)
  /\ \E p \in {retry_wrapper(Cur)} : SetProg(p)
  /\ CountRequest
  /\ LogAttempt
  /\ NoteExhausted
  /\ Fault
  /\ UNCHANGED <<request, invocation, startCount, count0>>

\* the service completes a create operation: the snapshot is READY
RemoteCreateSucceeds ==
  /\ \E op \in ops :
       /\ op.status = "running"
       /\ ops' = (ops \ {op}) \cup {[op EXCEPT !.status = "ok"]}
       /\ remote' = [remote EXCEPT ![op.url].snaps =
                       [i \in 1..Len(@) |->
                          IF @[i].id = op.id /\ @[i].state = "CREATING"
                          THEN [@[i] EXCEPT !.state = "READY"] ELSE @[i]]]
  /\ UNCHANGED <<request, progVars, clock, invocation, faults, histVars>>

\* the service fails a create operation: the snapshot is gone
RemoteCreateFails ==
  /\ \E op \in ops :
       /\ op.status = "running"
       /\ ops' = (ops \ {op}) \cup {[op EXCEPT !.status = "error"]}
       /\ remote' = [remote EXCEPT ![op.url].snaps = DropSnap(@, op.id)]
  /\ UNCHANGED <<request, progVars, clock, invocation, faults, histVars>>

\* the service completes a deletion
RemoteDeleteCompletes ==
  /\ \E url \in DOMAIN remote :
       \E id \in SnapIds(url) :
         /\ \E i \in 1..Len(remote[url].snaps) :
              remote[url].snaps[i].id = id /\ remote[url].snaps[i].state = "DELETING"
         /\ remote' = [remote EXCEPT ![url].snaps = DropSnap(@, id)]
  /\ UNCHANGED <<request, progVars, clock, ops, invocation, faults, histVars>>

(***************************************************************************)
(* The requests and the services the model is run on.                      *)
(***************************************************************************)
\* the largest retention count a request of the model asks for
MaxSnapshots == 2
\* the most attempts the service lets fail in one run of the model
MaxFaults == 3
\* the same, when the request names one instance twice
MaxFaultsTwice == 0

StartTime == DaysFromCivil(2022, 1, 3) * 86400
DaysAgo(k) == StartTime - k * 86400

Policy == <<"d">>
OtherPolicy == <<"w">>
\* a policy whose name starts with Policy and a hyphen
LongerPolicy == <<"d", "-", "w">>
I1 == <<"p", "/", "i", "1">>
I1Path == <<"/", "p", "/", "i", "1", "/">>
I2 == <<"p", "/", "i", "2">>
I3 == <<"p", "/", "i", "3">>
Missing == <<"p", "/", "i", "9">>
Manual == <<"m", "a", "n", "u", "a", "l">>

Ready(id) == [id |-> id, state |-> "READY"]
Sched(k) == Ready(snap_name(Policy, DaysAgo(k)))

\* the snapshots instance I1 may start with
Populations ==
  { <<>>,
    <<Sched(1)>>,
    <<Sched(1), Sched(2)>>,
    <<Ready(Manual), Sched(1), Ready(snap_name(OtherPolicy, DaysAgo(4))),
      [id |-> snap_name(Policy, DaysAgo(5)), state |-> "CREATING"], Sched(3)>>,
    <<Sched(2), Ready(snap_name(LongerPolicy, DaysAgo(3)))>> }

\* an instance at the service's limit of snapshots, less short: manual
\* snapshots and one scheduler snapshot
Filler(k) == <<"m">> \o Pad4(k)
Crowded(short) ==
  [k \in 1..(MAX_NUMBER_OF_SNAPSHOTS - short - 1) |-> Ready(Filler(k))] \o <<Sched(1)>>
CrowdedPopulations == { Crowded(0), Crowded(1) }

World(snaps) ==
  (I1 :> [tier |-> "ENTERPRISE", state |-> "READY", snaps |-> snaps])
  @@ (I2 :> [tier |-> "BASIC_HDD", state |-> "READY", snaps |-> <<Sched(1)>>])
  @@ (I3 :> [tier |-> "HIGH_SCALE_SSD", state |-> "REPAIRING", snaps |-> <<Sched(1)>>])

Body(policy, insts) == [kind |-> "json", value |-> JRequest(policy, insts)]
E(path, n) == JEntry(JStr(path), JNum(n))
Chars(n) == [i \in 1..n |-> "a"]
Letters == <<"a", "b", "c">>

\* bodies main rejects as a whole
RejectedBodies ==
  { [kind |-> "malformed"],
    [kind |-> "json", value |-> JNull],
    [kind |-> "json", value |-> JArr(<<E(I1, 1)>>)],
    Body(Absent, JArr(<<E(I1, 1)>>)),
    Body(JStr(<<>>), JArr(<<E(I1, 1)>>)),
    Body(JNum(7), JArr(<<E(I1, 1)>>)),
    Body(JStr(Chars(RETENTION_NAME_LENGTH + 1)), JArr(<<E(I1, 1)>>)),
    Body(JStr(Policy), Absent),
    Body(JStr(Policy), JArr(<<>>)),
    Body(JStr(Policy), JStr(I1)),
    Body(JStr(Policy), JArr([i \in 1..(MAX_INSTANCES + 1) |-> E(I1, 1)])) }

\* entries main skips
SkippedEntries ==
  << E(I1, 0), E(I1, 0 - 1), E(I1, MAX_NUMBER_OF_SNAPSHOTS + 1),
     JEntry(JStr(I1), Absent), JEntry(Absent, JNum(1)), JEntry(JStr(<<>>), JNum(1)),
     JEntry(JStr(I1), JStr(<<"0">>)), JEntry(JStr(I1), JNull) >>

\* bodies main accepts, whose entries it skips or fails on before any
\* remote call
InputBodies ==
  { Body(JStr(Policy), JArr(<<JStr(I1), E(I1, 1)>>)),
    Body(JStr(Policy), JArr(<<E(I1, 0), JEntry(JStr(I1), JStr(Letters))>>)),
    Body(JStr(Policy), JArr(<<JEntry(JNum(5), JNum(1))>>)),
    Body(JStr(Policy), JArr(SkippedEntries)),
    Body(JStr(Chars(RETENTION_NAME_LENGTH)),
         JArr([i \in 1..MAX_INSTANCES |-> E(I1, 0)])) }

\* bodies with entries main skips among entries it processes
MixedBodies ==
  { Body(JStr(Policy), JArr(<<E(I1, 0), E(I1, 1), JEntry(Absent, JNum(1))>>)),
    Body(JStr(Policy), JArr(<<E(I3, 1), E(I1, 2)>>)),
    Body(JStr(Policy), JArr(<<JEntry(JStr(<<>>), JNum(1)), E(I2, 1),
                              E(I1, MAX_NUMBER_OF_SNAPSHOTS + 1), E(I1, 2)>>)) }

\* bodies of one entry, for instance I1
SingleBodies == { Body(JStr(Policy), JArr(<<E(I1Path, n)>>)) : n \in 1..MaxSnapshots }

\* bodies of two entries for two instances
BatchBodies ==
  { Body(JStr(Policy), JArr(<<E(Missing, 1), E(I1, 1)>>)),
    Body(JStr(Policy), JArr(<<E(I2, 1), JEntry(JStr(I1), JStr(<<"2">>))>>)) }

\* a body that asks for "0" snapshots, a string int() reads as zero
ZeroBodies == { Body(JStr(Policy), JArr(<<JEntry(JStr(I1), JStr(<<"0">>))>>)) }

\* a body that names instance I1 twice
TwiceBodies == { Body(JStr(Policy), JArr(<<E(I1, 1), E(I1, 1)>>)) }

\* a run of the model: the request, I1's snapshots, the attempts that may fail
Scenario(body, snaps, n) == [request |-> body, snaps |-> snaps, faults |-> n]
Scenarios ==
  { Scenario(b, <<Sched(1)>>, 0) : b \in RejectedBodies \cup InputBodies \cup MixedBodies }
  \cup { Scenario(b, snaps, MaxFaults) : b \in SingleBodies, snaps \in Populations }
  \cup { Scenario(b, snaps, 0) : b \in SingleBodies, snaps \in CrowdedPopulations }
  \cup { Scenario(b, <<Sched(1)>>, MaxFaults) : b \in BatchBodies }
  \cup { Scenario(b, <<Sched(1)>>, MaxFaultsTwice) : b \in TwiceBodies }
  \cup { Scenario(b, <<>>, 0) : b \in ZeroBodies }

\* the state before the trigger fires, in scenario sc
InitOf(sc) ==
  /\ request = sc.request
  /\ pc = "idle"
  /\ idx = 0
  /\ filer = NoFiler
  /\ operation_url = None
  /\ creation_completed = None
  /\ attempts = 0
  /\ attempt = 0
  /\ retval = None
  /\ clock = StartTime
  /\ remote = World(sc.snaps)
  /\ ops = {}
  /\ invocation = 0
  /\ faults = sc.faults
  /\ calls = <<>>
  /\ nreq = <<>>
  /\ exhausted = {}
  /\ startCount = <<>>
  /\ count0 = Cardinality({i \in 1..Len(sc.snaps) :
                             /\ sc.snaps[i].state = "READY"
                             /\ IsSchedulerId(sc.snaps[i].id, Policy)})

Init == \E sc \in Scenarios : InitOf(sc)

Next ==
  \/ Start
  \/ LoopHead
  \/ GetInstanceReturns
  \/ ListSnapshotsReturns
  \/ CreateSnapshotReturns
  \/ GetOperationReturns
  \/ DeleteSnapshotReturns
  \/ CallRaises
  \/ CreateAcceptedResponseLost
  \/ CreateReturnsNoName
  \/ DeleteAcceptedResponseLost
  \/ RemoteCreateSucceeds
  \/ RemoteCreateFails
  \/ RemoteDeleteCompletes

Spec == Init /\ [][Next]_vars

\* the program keeps running and every request gets some outcome: main is
\* a sequential program and execute() returns or raises
FairSpec == Init /\ [][Next]_vars /\ WF_vars(Next)

(***************************************************************************)
(* Invocations in succession against a service that reflects committed     *)
(* state: every request is accepted and acknowledged, a create operation   *)
(* completes with a READY snapshot before the monitoring gives up, a       *)
(* deletion completes, and nothing else changes the snapshots.             *)
(***************************************************************************)
\* how many times the trigger fires
MaxInvocations == 3
\* how many scheduler snapshots beyond the retention count I1 may start with
MaxExcess == 1
\* how many polls may find the create operation still running
MaxPendingPolls == 2
\* the seconds between two triggers
Period == 60 * 60

Min(a, b) == IF a <= b THEN a ELSE b
SchedRun(k) == [i \in 1..k |-> Sched(i)]
CommittedScenarios ==
  { Scenario(b, front \o SchedRun(k), 0) :
      b \in SingleBodies,
      k \in 0..(MaxSnapshots + MaxExcess),
      front \in {<<>>, <<Ready(Manual), Ready(snap_name(OtherPolicy, DaysAgo(9)))>>} }

InitCommitted == \E sc \in CommittedScenarios : InitOf(sc)

\* nothing the service accepted is still in progress
Settled ==
  /\ \A op \in ops : op.status # "running"
  /\ \A url \in DOMAIN remote :
       \A i \in 1..Len(remote[url].snaps) : remote[url].snaps[i].state # "DELETING"

\* the trigger fires again, a period after the last time
Reinvoke ==
  /\ pc = "returned"
  /\ invocation < MaxInvocations
  /\ Settled
  /\ invocation' = invocation + 1
  /\ SetProg(main_enter([pc |-> "idle", idx |-> 0, filer |-> NoFiler,
                         operation_url |-> None, creation_completed |-> None,
                         attempts |-> 0, attempt |-> 0, retval |-> None,
                         slept |-> Period], request))
  /\ calls' = <<>>
  /\ nreq' = <<>>
  /\ exhausted' = {}
  /\ startCount' = <<>>
  /\ UNCHANGED <<request, envVars, faults, count0>>

\* the poll is answered; the operation is done by poll MaxPendingPolls + 1
GetOperationReturnsInTime ==
  /\ pc = "get_operation"
  /\ OperationDetails(operation_url).done \/ attempt <= MaxPendingPolls
  /\ GetOperationReturns

NextCommitted ==
  \/ Start
  \/ Reinvoke
  \/ LoopHead
  \/ GetInstanceReturns
  \/ ListSnapshotsReturns
  \/ CreateSnapshotReturns
  \/ GetOperationReturnsInTime
  \/ DeleteSnapshotReturns
  \/ RemoteCreateSucceeds
  \/ RemoteDeleteCompletes

\* the scheduler keeps triggering, the program keeps running and the
\* service keeps working
CommittedSpec == InitCommitted /\ [][NextCommitted]_vars /\ WF_vars(NextCommitted)

(***************************************************************************)
(* The claims.                                                             *)
(***************************************************************************)
Terminated == pc \in {"returned", "raised"}
DeleteRequests == {k \in 1..Len(calls) : calls[k].op = "delete"}
CreateRequests == {k \in 1..Len(calls) : calls[k].op = "create"}
CountNow == Cardinality(ReadySchedulerIds(I1, Policy))
Instances == GetInstances(request.value).v

\* C1: increment_retention sends no delete request when _create_snapshot
\* returned no operation handle, and none when _monitor_operation returned
\* false: every delete request ever sent was sent with a handle in hand and
\* the monitoring answered true.
C1_NoDeleteUnlessCreationConfirmed ==
  \A k \in DeleteRequests :
    /\ Truthy(calls[k].handle)
    /\ calls[k].completed = Ok(TRUE)

\* a deletion was due, the creation was not confirmed, and main returned
\* having sent no delete request
C1_Witness ==
  /\ pc = "returned"
  /\ CreateRequests # {}
  /\ deletion_needed(filer)
  /\ creation_completed = Ok(FALSE) \/ operation_url = None
  /\ DeleteRequests = {}

\* C2: main never raises: whatever the body and whatever the service does,
\* it returns "done" or "done with error".
C2_MainNeverRaises ==
  /\ pc # "raised"
  /\ pc = "returned" => retval \in {Ok("done"), Ok("done with error")}

\* C3: when the retries of get-instance or list-snapshots run out during
\* the construction of a controller, no create and no delete request is
\* sent for that entry and main goes on with the entries after it; when
\* the retries of create-snapshot run out, no delete request is sent for
\* the entry and main goes on.
C3_ExhaustedCallSkipsEntryOnly ==
  \A e \in exhausted :
    /\ e.site \in {"get_instance", "list_snapshots"} =>
         \A k \in 1..Len(calls) : calls[k].idx # e.idx
    /\ e.site = "create" => \A k \in DeleteRequests : calls[k].idx # e.idx
    /\ e.site \in {"get_instance", "list_snapshots", "create"} =>
         /\ ~(pc = "raised" /\ idx = e.idx)
         /\ pc = "returned" => idx > Len(Instances)

\* C4: for one entry, a delete request comes only after the create request
\* and after the monitoring of the create operation answered true: the
\* program reaches the delete call only from a poll that resolved the
\* monitoring to true, and in the history every delete request follows a
\* create request of its entry and none precedes one.
C4_CreateResolvedBeforeDelete ==
  /\ [](\A k \in DeleteRequests :
          /\ \E j \in 1..(k - 1) : calls[j].op = "create" /\ calls[j].idx = calls[k].idx
          /\ \A j \in (k + 1)..Len(calls) :
               calls[j].idx = calls[k].idx => calls[j].op = "delete")
  /\ [][pc' = "delete" /\ pc # "delete" =>
          /\ pc = "get_operation"
          /\ creation_completed = None
          /\ creation_completed' = Ok(TRUE)
          /\ Truthy(operation_url')]_vars

\* a delete request was sent after a create operation that needed more
\* than one poll
C4_Witness ==
  /\ DeleteRequests # {}
  /\ attempt >= 2
  /\ creation_completed = Ok(TRUE)

\* C5: the delete requests one entry sends in one invocation, retries
\* included, all name the same snapshot, however far the count exceeds the
\* retention count: at most one snapshot is deleted.
C5_OneSnapshotDeleted ==
  \A j, k \in DeleteRequests :
    calls[j].idx = calls[k].idx => calls[j].name = calls[k].name

\* the count exceeded the retention count and the delete request was sent
\* more than once
C5_Witness ==
  /\ Len(filer.scheduler_snapshots) > filer.max_snapshots
  /\ \E j, k \in DeleteRequests : j < k /\ calls[j].idx = calls[k].idx

\* C6 as stated: against the committed service the count at the end of an
\* invocation eventually equals the retention count and stays there, from
\* any starting count, below, at or above it.
C6_ConvergesFromAnyCount ==
  <>[](pc = "returned" => CountNow = filer.max_snapshots)

\* C6 as amended: at the end of invocation k the count is min(n, c + k)
\* when the starting count c is at most the retention count n, so it
\* reaches n after n - c invocations and stays there; when c exceeds n the
\* count at the end of every invocation is c again.
C6_ConvergesFromBelowOnly ==
  pc = "returned" =>
    CountNow = IF count0 <= filer.max_snapshots
               THEN Min(filer.max_snapshots, count0 + invocation)
               ELSE count0

\* the count started below the retention count, reached it, and an
\* invocation later is still there
C6_Witness ==
  /\ pc = "returned"
  /\ count0 < filer.max_snapshots
  /\ invocation > filer.max_snapshots - count0
  /\ CountNow = filer.max_snapshots

\* C7: the controller never deletes below n: once a delete request has
\* been sent in an invocation, the READY scheduler snapshots left on the
\* instance are at least the retention count, while the deletion runs and
\* after it completed.
C7_NeverDeletesBelowTarget ==
  DeleteRequests # {} => CountNow >= filer.max_snapshots

\* a deletion completed and left exactly the retention count
C7_Witness ==
  /\ DeleteRequests # {}
  /\ DeleteTarget(I1, calls[CHOOSE k \in DeleteRequests : TRUE].name) = {}
  /\ CountNow = filer.max_snapshots

Range(f) == {f[i] : i \in DOMAIN f}

\* C9: a snapshot is counted as a scheduler snapshot iff its name is
\* sched-<retention_policy>-<timestamp> for the controller's own policy and
\* its state is READY; no other snapshot is counted or is the target of a
\* delete request.
C9_OnlyOwnReadySnapshotsCounted ==
  /\ filer.snapshots.t = "list" =>
       \A i \in 1..Len(filer.snapshots.v) :
         LET snapshot == filer.snapshots.v[i]
         IN snapshot.name \in Range(filer.scheduler_snapshots)
              <=> /\ IsSchedulerId(get_resource_name(snapshot.name),
                                   filer.retention_policy)
                  /\ snapshot.state = "READY"
  /\ \A k \in DeleteRequests :
       /\ calls[k].name # None
       /\ IsSchedulerId(get_resource_name(calls[k].name.v), Policy)

\* what C10 calls failing the top-level validation
TopLevelInvalid(body) ==
  \/ body.kind = "malformed"
  \/ body.value.t # "obj"
  \/ body.value.retention_policy.t # "str"
  \/ Len(body.value.retention_policy.v) = 0
  \/ Len(body.value.retention_policy.v) > 50
  \/ body.value.instances.t # "arr"
  \/ Len(body.value.instances.v) = 0
  \/ Len(body.value.instances.v) > 8

\* C10: a request that fails the top-level validation is rejected as a
\* whole: main returns "done with error", having made no remote call for
\* any instance.
C10_RejectedWholesale ==
  TopLevelInvalid(request) =>
    /\ NRequests = 0
    /\ calls = <<>>
    /\ pc \in {"idle", "returned"}
    /\ pc = "returned" => retval = Ok("done with error")

\* a request of nine instances was rejected
C10_Witness ==
  /\ pc = "returned"
  /\ retval = Ok("done with error")
  /\ request.kind = "json"
  /\ request.value.t = "obj"
  /\ request.value.instances.t = "arr"
  /\ Len(request.value.instances.v) = MAX_INSTANCES + 1
  /\ NRequests = 0


\* what C11 calls an invalid spec: instance_path missing or empty, snapshots
\* missing, 0, negative or greater than 240
InvalidSpec(entry) ==
  /\ entry.t = "obj"
  /\ \/ entry.instance_path \in {Absent, JNull, JStr(<<>>)}
     \/ entry.snapshots \in {Absent, JNull}
     \/ /\ entry.snapshots.t = "num"
        /\ entry.snapshots.v <= 0 \/ entry.snapshots.v > 240
InvalidEntries ==
  IF TopLevelInvalid(request) THEN {}
  ELSE {i \in 1..Len(Instances) : InvalidSpec(Instances[i])}

\* C11: in a request that passes the top-level validation, an entry with an
\* invalid spec is skipped alone: no remote call is made for it, the other
\* entries are processed, and main returns "done".
C11_InvalidEntrySkippedAlone ==
  InvalidEntries # {} =>
    /\ \A i \in InvalidEntries :
         /\ i \notin DOMAIN nreq
         /\ \A k \in 1..Len(calls) : calls[k].idx # i
    /\ pc # "raised"
    /\ pc = "returned" => retval = Ok("done") /\ idx = Len(Instances) + 1

\* the part of C11 about the invalid entries themselves: none gets a remote
\* call, and main never stops at one
C11_InvalidEntryGetsNoCall ==
  \A i \in InvalidEntries :
    /\ i \notin DOMAIN nreq
    /\ \A k \in 1..Len(calls) : calls[k].idx # i
    /\ idx = i => pc = "loop"


\* the instance entry i of the request names, for the entries main built a
\* controller for
EntryUrl(i) == StripSlashes(Instances[i].instance_path.v)
\* the entries whose instance is of a tier outside the allow-list
GatedEntries ==
  {i \in DOMAIN nreq :
     EntryUrl(i) \in DOMAIN remote /\ remote[EntryUrl(i)].tier \notin SUPPORTED_TIERS}

\* C12: for an instance whose tier is not in the allow-list no create and
\* no delete request is sent in the invocation, whatever its snapshots, its
\* state and the retention count asked for.
C12_TierGate ==
  \A i \in GatedEntries :
    /\ nreq[i]["create"] = 0
    /\ nreq[i]["get_operation"] = 0
    /\ nreq[i]["delete"] = 0
    /\ \A k \in 1..Len(calls) : calls[k].idx # i

\* main listed the snapshots of an instance of another tier, which held as
\* many scheduler snapshots as asked for, went on without a create request
\* and sent one for the next entry
C12_Witness ==
  \E i \in GatedEntries :
    /\ nreq[i]["list_snapshots"] >= 1
    /\ Cardinality(ReadySchedulerIds(EntryUrl(i), Policy)) >= 1
    /\ \E k \in CreateRequests : calls[k].idx > i


\* the bounds C13 names: a remote call is attempted at most 3 times, an
\* operation is polled at most 8 times, with at most 24 get-operation
\* requests for an entry
WithinBounds ==
  /\ attempts <= MAX_RETRIES
  /\ pc = "get_operation" => attempt \in 1..MONITOR_ATTEMPTS
  /\ \A i \in DOMAIN nreq :
       /\ \A site \in CallSites \ {"get_operation"} : nreq[i][site] <= MAX_RETRIES
       /\ nreq[i]["get_operation"] <= MONITOR_ATTEMPTS * MAX_RETRIES

\* C13: every invocation terminates, whatever the service does: within
\* the bounds on attempts and polls every remote call returns, every entry
\* is finished, and main eventually returns.
C13_MainEventuallyReturns ==
  /\ []WithinBounds
  /\ <>(pc = "returned")

\* the part of C13 that holds: within the bounds, main eventually returns
\* or raises
C13_MainEventuallyEnds ==
  /\ []WithinBounds
  /\ <>Terminated


\* C14: deletion_needed returns true iff the scheduler snapshots listed at
\* construction are at least max_snapshots, exactly as many included, and
\* false otherwise; the delete call is reached only when it returned true.
C14_DeletionNeededIffAtLeast ==
  /\ deletion_needed(filer) <=> Len(filer.scheduler_snapshots) >= filer.max_snapshots
  /\ pc = "delete" => Len(filer.scheduler_snapshots) >= filer.max_snapshots
  /\ (pc = "loop" /\ creation_completed = Ok(TRUE) /\ DeleteRequests = {})
       => Len(filer.scheduler_snapshots) < filer.max_snapshots

\* deletion_needed returned true for exactly max_snapshots snapshots
C14_Witness ==
  /\ pc = "delete"
  /\ filer.max_snapshots = 2
  /\ Len(filer.scheduler_snapshots) = 2


\* the YYYYMMDD-HHMMSS part of a scheduler snapshot's resource name
Stamp(name) == SliceFrom(get_resource_name(name), Len(PolicyMarker(filer.retention_policy)))
\* a before or at b, for two timestamps of the pattern: the order of their
\* digits
RECURSIVE StampLeq(_, _)
StampLeq(a, b) ==
  IF a = <<>> \/ b = <<>> THEN a = <<>>
  ELSE IF Head(a) = Head(b) THEN StampLeq(Tail(a), Tail(b))
  ELSE Head(a) = "-" \/ (IsDigit(Head(b)) /\ DigitVal(Head(a)) < DigitVal(Head(b)))
\* the READY snapshots of the controller's policy among those it listed
ListedSchedulerSnapshots ==
  {filer.snapshots.v[i].name : i \in
     {j \in 1..Len(filer.snapshots.v) :
        /\ filer.snapshots.v[j].state = "READY"
        /\ IsSchedulerId(get_resource_name(filer.snapshots.v[j].name),
                         filer.retention_policy)}}

\* C15: get_oldest_scheduler_snapshot returns the scheduler snapshot with
\* the least timestamp in its name among all the scheduler snapshots, and
\* none when there is no scheduler snapshot.
C15_OldestIsLeastTimestamp ==
  filer.snapshots.t = "list" =>
    /\ pc # "raised"
    /\ IF ListedSchedulerSnapshots = {} THEN filer.oldest_sched_snapshot = None
       ELSE \E s \in ListedSchedulerSnapshots :
              /\ filer.oldest_sched_snapshot = JStr(s)
              /\ \A t \in ListedSchedulerSnapshots : StampLeq(Stamp(s), Stamp(t))


\* the controller is built: __init__ returned
Built == filer.filestore_instance_json # None /\ filer.snapshots.t = "list"
\* the three requirements of C16, on what the controller fetched
MeetsRequirements ==
  /\ filer.filestore_instance_json.tier \in {"ENTERPRISE", "HIGH_SCALE_SSD"}
  /\ Len(filer.snapshots.v) < 240
  /\ filer.filestore_instance_json.state = "READY"

PollAnswered ==
  /\ pc = "get_operation"
  /\ nreq' # nreq
  /\ attempts' = 0
  /\ exhausted' = exhausted
\* the step ends the monitoring with the answer b, having waited w seconds
MonitorReturns(b, w) ==
  /\ creation_completed' = Ok(b)
  /\ pc' \notin {"get_operation", "raised"}
  /\ clock' = clock + w
\* the step goes on to the next poll, having waited w seconds
MonitorPollsAgain(w) ==
  /\ pc' = "get_operation"
  /\ attempt' = attempt + 1
  /\ creation_completed' = None
  /\ clock' = clock + w
\* the monitoring is at one of its 8 polls and does not raise
MonitorBounded ==
  /\ [](pc = "get_operation" => attempt \in 1..8 /\ creation_completed = None)
  /\ [][pc = "get_operation" => pc' # "raised"]_vars

\* C17 as stated: at most 8 polls; a poll that reports done with success
\* returns true, one that reports done with error returns false, and after
\* a poll numbered attempt that finds the operation not terminal the
\* monitoring waits 2^attempt seconds, returning false when that was the
\* eighth poll; it never raises.
C17_WaitsAfterEveryPoll ==
  /\ MonitorBounded
  /\ [][PollAnswered =>
          IF OperationDetails(operation_url).response THEN MonitorReturns(TRUE, 0)
          ELSE IF OperationDetails(operation_url).error THEN MonitorReturns(FALSE, 0)
          ELSE IF attempt < 8 THEN MonitorPollsAgain(2 ^ attempt)
          ELSE MonitorReturns(FALSE, 2 ^ attempt)]_vars

\* C17 as amended: the same, but the wait of 2^attempt seconds follows the
\* polls numbered 1 to 7 only: after the eighth poll the monitoring returns
\* false at once.
C17_WaitsBetweenPolls ==
  /\ MonitorBounded
  /\ [][PollAnswered =>
          IF OperationDetails(operation_url).response THEN MonitorReturns(TRUE, 0)
          ELSE IF OperationDetails(operation_url).error THEN MonitorReturns(FALSE, 0)
          ELSE IF attempt < 8 THEN MonitorPollsAgain(2 ^ attempt)
          ELSE MonitorReturns(FALSE, 0)]_vars

\* the eighth poll found the operation still running and the monitoring
\* returned false, 2 + 4 + ... + 128 seconds of waiting after the create
\* request was acknowledged
C17_Witness ==
  /\ creation_completed = Ok(FALSE)
  /\ attempt = 9
  /\ exhausted = {}
  /\ \E op \in ops : op.status = "running"
  /\ faults = MaxFaults => clock = StartTime + 254


\* a step in which an attempt of the current remote call is made
AttemptMade == pc \in CallSites /\ nreq' # nreq
\* the attempt failed and the call is attempted again
AttemptFailed == AttemptMade /\ attempts' = attempts + 1 /\ exhausted' = exhausted
\* the attempt failed and was the last one allowed
AttemptsExhausted == AttemptMade /\ exhausted' # exhausted
\* the caller goes on as it does with no result from the call at site
ResumedWithNoResult(site) ==
  CASE site = "get_instance" -> pc' = "loop" /\ idx' = idx + 1
    [] site = "list_snapshots" -> filer'.snapshots = None
    [] site = "create" -> operation_url' = None /\ pc' = "loop" /\ idx' = idx + 1
    [] site = "get_operation" -> creation_completed' = Ok(FALSE) /\ pc' = "loop"
    [] site = "delete" -> pc' = "loop" /\ idx' = idx + 1

\* C18: the retry policy of the five remote calls makes at most 3 attempts
\* of a call; the k-th failed attempt is followed by a backoff of 2^k
\* seconds and, for k below 3, by another attempt; the first attempt that
\* succeeds ends the call with no further attempt; after 3 failed attempts
\* the call yields no result, which is not an exception.
C18_RetryPolicy ==
  /\ [](pc \in CallSites => attempts \in 0..(MAX_RETRIES - 1))
  /\ [][AttemptFailed =>
          /\ pc' = pc
          /\ clock' = clock + RETRY_BACKOFF ^ (attempts + 1)
          /\ UNCHANGED <<idx, filer, operation_url, creation_completed, attempt>>]_vars
  /\ [][AttemptsExhausted =>
          /\ attempts = MAX_RETRIES - 1
          /\ clock' = clock + RETRY_BACKOFF ^ MAX_RETRIES
          /\ ResumedWithNoResult(pc)
          /\ \A i \in DOMAIN nreq' :
               nreq'[i][pc] <= IF pc = "get_operation"
                               THEN MONITOR_ATTEMPTS * MAX_RETRIES ELSE MAX_RETRIES]_vars
  /\ [][AttemptMade /\ ~AttemptFailed /\ ~AttemptsExhausted =>
          /\ pc # "get_operation" => clock' = clock
          /\ pc' # pc \/ (pc = "get_operation" /\ attempt' = attempt + 1)]_vars

\* a create call failed three times, 2 + 4 + 8 seconds of backoff, and
\* main went on with no handle; an earlier call succeeded at once
C18_Witness ==
  /\ \E e \in exhausted : e.site = "create"
  /\ operation_url = None
  /\ pc = "returned"
  /\ clock = StartTime + 14
  /\ \A i \in DOMAIN nreq : nreq[i]["get_instance"] = 1 /\ nreq[i]["create"] = 3


\* increment_retention is running: the controller is at one of its calls
IncrementRetention == pc \in {"create", "get_operation", "delete"}
\* the snapshots the service accepted to create for entry i, as named in a
\* delete request
CreatedFor(i) == {JStr(SnapshotUrl(op.url, op.id)) : op \in {o \in ops : o.idx = i}}

\* C19: a controller's view is fetched at construction and not refreshed:
\* no step of increment_retention changes snapshots, scheduler_snapshots
\* or oldest_sched_snapshot or sends a get-instance or list-snapshots
\* request, and no delete request of an entry names a snapshot created for
\* that entry.
C19_ViewNotRefreshed ==
  /\ [][IncrementRetention =>
          /\ filer'.snapshots = filer.snapshots
          /\ filer'.scheduler_snapshots = filer.scheduler_snapshots
          /\ filer'.oldest_sched_snapshot = filer.oldest_sched_snapshot
          /\ \A i \in DOMAIN nreq :
               /\ nreq'[i]["get_instance"] = nreq[i]["get_instance"]
               /\ nreq'[i]["list_snapshots"] = nreq[i]["list_snapshots"]]_vars
  /\ [](\A k \in DeleteRequests : calls[k].name \notin CreatedFor(calls[k].idx))

\* a controller sent its delete request when the snapshot it had created
\* was READY on the instance and absent from its list
C19_Witness ==
  /\ \E k \in DeleteRequests :
       /\ calls[k].idx = Len(Instances)
       /\ \E op \in ops :
            /\ op.idx = calls[k].idx
            /\ op.id \in ReadySchedulerIds(op.url, filer.retention_policy)
            /\ SnapshotUrl(op.url, op.id) \notin Range(filer.scheduler_snapshots)
  /\ pc = "returned"


\* the snapshots the controller listed as READY and counted as the
\* policy's own
ListedReadyCounted ==
  {JStr(filer.snapshots.v[i].name) : i \in
     {j \in 1..Len(filer.snapshots.v) :
        /\ filer.snapshots.v[j].state = "READY"
        /\ filer.snapshots.v[j].name \in Range(filer.scheduler_snapshots)}}

\* C20: a delete request sent through main never has none as its target:
\* a controller that runs increment_retention has max_snapshots >= 1, so
\* where deletion_needed answers true its list of scheduler snapshots is
\* not empty and oldest_sched_snapshot is one of the READY snapshots of
\* that list, as listed at construction; the delete call is reached only
\* there.
C20_DeleteTargetNeverNone ==
  /\ IncrementRetention =>
       /\ filer.max_snapshots >= 1
       /\ deletion_needed(filer) =>
            /\ filer.scheduler_snapshots # <<>>
            /\ filer.oldest_sched_snapshot # None
            /\ filer.oldest_sched_snapshot \in ListedReadyCounted
  /\ pc = "delete" => deletion_needed(filer)
  /\ \A k \in DeleteRequests :
       calls[k].name # None /\ calls[k].name.t = "str" /\ calls[k].name.v # <<>>

\* a delete request was sent, and sent again, for the older of two
\* scheduler snapshots, the one listed last
C20_Witness ==
  /\ pc = "delete"
  /\ DeleteRequests # {}
  /\ Len(filer.scheduler_snapshots) = 2
  /\ filer.oldest_sched_snapshot = JStr(filer.scheduler_snapshots[2])


\* the snapshots created for entry i that are READY on their instance
NewReadySnapshots(i) ==
  {op.id : op \in {o \in ops : /\ o.idx = i
                              /\ o.id \in ReadySchedulerIds(o.url, filer.retention_policy)}}

\* C21: one invocation leaves at most one new scheduler snapshot on the
\* instance of an entry, also when an attempt of the create call failed
\* after the service had accepted it and the call was retried; and every
\* create request is sent with no acknowledged one before it.
C21_AtMostOneNewSnapshot ==
  /\ \A i \in DOMAIN nreq : Cardinality(NewReadySnapshots(i)) <= 1
  /\ \A k \in CreateRequests : calls[k].handle = None
  /\ pc = "create" => operation_url = None

\* the part of C21 that holds: the create request that is acknowledged is
\* the last create request of its entry
C21_NoCreateAfterAcknowledged ==
  /\ [][pc = "create" /\ AttemptMade /\ ~AttemptFailed /\ ~AttemptsExhausted =>
          /\ pc' # "create"
          /\ idx' = idx => Truthy(operation_url')]_vars
  /\ [][AttemptMade /\ pc = "create" => operation_url = None]_vars
  /\ [](\A i \in DOMAIN nreq : nreq[i]["create"] <= MAX_RETRIES)

====
